---------------------------- MODULE Spec2Model ----------------------------
(***************************************************************************)
(* Review acquisition and enrichment pipeline.                             *)
(*                                                                         *)
(*   Spec         the two scrape jobs of app/services/review_parser.py:    *)
(*                SravniParser.parse_gazprombank_reviews and               *)
(*                BankiRuParser.parse_reviews, one HTTP request per step.  *)
(*   SpecEmbed    generate_embeddings_async of app/services/ml.py, one     *)
(*                embedding API call per step.                             *)
(*   SpecAnalyze  analyze_text_async of app/services/ml.py, one API call   *)
(*                per step.                                                *)
(*   SpecPipeline concurrent process_reviews calls of                      *)
(*                app/services/pipeline.py on one event loop, sharing the  *)
(*                EmbeddingBatcher of app/services/embeddings.py; a step   *)
(*                is what one task does between two suspensions.           *)
(*   SpecClient   concurrent create_chat_completion and create_embeddings  *)
(*                calls of app/services/openai_client.py on one event      *)
(*                loop, under their two asyncio semaphores.                *)
(***************************************************************************)
EXTENDS Integers, Sequences, FiniteSets, TLC

(***************************************************************************)
(* Bounds of the model.                                                    *)
(***************************************************************************)
MaxPages == 2
MaxTexts == 3
MaxCallers == 2
MaxCallTexts == 1
MaxTasks == 3
MaxRecords == 3

(***************************************************************************)
(* Program constants.                                                      *)
(***************************************************************************)
DEFAULT_MAX_RETRIES == 6
REQUEST_ERROR_SLEEP == 5
THROTTLE_SLEEP == 60
BLOCKED_BASE == 30
BLOCKED_CAP == 180
SERVER_ERROR_BASE == 10
SERVER_ERROR_CAP == 90

(***************************************************************************)
(* Input domains.  A raw date is 0 when the field is missing or empty,     *)
(* -1 when it is a string no parser accepts, and a positive day number     *)
(* otherwise.  A review id of 0 is a missing id.                           *)
(***************************************************************************)
NoDate == 0
BadDate == 0 - 1
NoId == 0
NoThreshold == 0

PageSizes == {0, 1, 2}
Thresholds == {NoThreshold, 2}
Filenames == {"default", "blank"}
Adapters == {"sravni", "banki"}

\* schemas/parser.py lines 8-10: the values of ParserSource
GAZPROMBANK_SRAVNI == "gazprombank_reviews"
BANKI_RU == "banki_ru"
ParserSources == { GAZPROMBANK_SRAVNI, BANKI_RU }

\* routes/parser.py lines 19-26: the parser that run_parser_job calls for a
\* job of the given source
RouteAdapter(src) == "sravni"

\* the parser each ParserSource names
AdapterNamed(src) == IF src = BANKI_RU THEN "banki" ELSE "sravni"

\* review_parser.py lines 242 and 476: ParseResult.source of each parser,
\* which the route returns as the source of the job result (line 38)
ResultSource(a) == IF a = "banki" THEN BANKI_RU ELSE GAZPROMBANK_SRAVNI

Items ==
  { [id |-> 1,    date |-> 2,       text |-> "a"],
    [id |-> 1,    date |-> 1,       text |-> "b"],
    [id |-> NoId, date |-> BadDate, text |-> "a"] }

RECURSIVE SeqsUpTo(_, _)
SeqsUpTo(S, n) ==
  IF n = 0 THEN { <<>> }
  ELSE LET shorter == SeqsUpTo(S, n - 1)
       IN  shorter \cup { Append(s, x) : s \in { t \in shorter : Len(t) = n - 1 }, x \in S }

VARIABLES
  source,         \* job.source of a job run through POST /parser/run, else "none"
  adapter,        \* which parser runs the job
  page_size,      \* job parameter
  max_pages,      \* job parameter
  start_date,     \* job parameter, NoThreshold when not given
  pc,             \* "idle", "run", "done" (a ParseResult is returned), "failed"
  error,          \* what was raised when pc = "failed"
  page,           \* loop variable of the page loop
  attempt,        \* loop variable of _fetch_banki_page
  parsed_rows,    \* rows accumulated so far
  skipped_pages,  \* banki: pages given up
  result,         \* the ParseResult
  csv,            \* rows handed to _CsvWriter.write
  csv_written,    \* whether the row file was written
  last_req,       \* history: the page of the latest request, -1 before the first
  last_status,    \* history: the status that request was answered with
  last_body,      \* history: what the body of a 200 answer held
  req_page,       \* history: requests issued for page last_req in a row
  n429,           \* history: of these, how many were answered 429
  pages_got,      \* history: the item lists of the pages answered with items
  fetch_failed,   \* history: the banki pages whose _fetch_banki_page raised
  last_wait,      \* history: the sleep that followed the latest answer
  session_blocked \* whether self._session has received a 403 or a 5xx

scrapeVars == << source, adapter, page_size, max_pages, start_date, pc, error, page,
                 attempt, parsed_rows, skipped_pages, result, csv, csv_written,
                 last_req, last_status, last_body, req_page, n429, pages_got,
                 fetch_failed, last_wait, session_blocked >>

VARIABLES
  e_pc,           \* generate_embeddings_async: "idle", "loop", "returned"
  e_texts,        \* its argument, as a list
  e_batch,        \* batch_size, line 90
  e_start,        \* loop variable of the chunk loop
  e_embeddings,   \* the list being built, then returned
  e_calls         \* history: create_embeddings calls issued

embedVars == << e_pc, e_texts, e_batch, e_start, e_embeddings, e_calls >>

VARIABLES
  a_pc,           \* analyze_text_async: "idle", "embed", "chat", "returned"
  a_text,         \* its argument text
  a_embedding,    \* its argument embedding, NoVector for None
  a_key,          \* whether settings.FOUNDATION_API_KEY is set
  a_cfg,          \* settings.FOUNDATION_CHAT_RETRIES
  a_local,        \* local_embedding
  a_attempt,      \* loop variable of the retry loop
  a_retries,      \* retries, line 156
  a_result,       \* the dict returned
  a_chat_calls,   \* history: create_chat_completion calls issued
  a_embed_calls,  \* history: create_embeddings calls issued
  a_delays,       \* history: the backoff sleeps, in order
  a_last          \* history: how the latest create_chat_completion call ended

analyzeVars == << a_pc, a_text, a_embedding, a_key, a_cfg, a_local, a_attempt,
                  a_retries, a_result, a_chat_calls, a_embed_calls, a_delays,
                  a_last >>

VARIABLES
  p_batch_size,   \* EmbeddingBatcher.batch_size
  p_started,      \* EmbeddingBatcher._started
  p_runner,       \* the _runner task: "none", "running", "dead"
  p_last,         \* history: the latest batch of _runner and what became of it
  p_queue,        \* EmbeddingBatcher._queue
  p_results,      \* EmbeddingBatcher._result_queue
  p_getters,      \* callers suspended in _result_queue.get(), in order
  p_woken,        \* callers whose get() was woken by a put, in order
  p_pc,           \* per caller: "idle", "waiting", "returned", "raised"
  p_n,            \* per caller: len(texts)
  p_embeddings,   \* per caller: the list `embeddings`
  p_enqueued,     \* history: the texts put in _queue, in the order of the puts
  p_dispatched    \* history: the batches handed to generate_embeddings, in order

pipeVars == << p_batch_size, p_started, p_runner, p_last, p_queue, p_results,
               p_getters, p_woken, p_pc, p_n, p_embeddings, p_enqueued,
               p_dispatched >>

VARIABLES
  s_cfg,          \* per kind of call: the configured concurrency setting
  s_value,        \* per semaphore: Semaphore._value
  s_waiters,      \* per semaphore: Semaphore._waiters, tasks in order
  s_pc,           \* per task: "idle", "waiting", "woken", "inflight"
  s_kind,         \* per task: the call it is in, "chat", "embed" or "none"
  s_last          \* history: how the latest call ended

clientVars == << s_cfg, s_value, s_waiters, s_pc, s_kind, s_last >>

VARIABLES
  i_pc,           \* the import job: "idle", "waiting", "returned", "raised"
  i_n,            \* len(records)
  i_job_id,       \* job_id, "" when the task has no request id
  i_batch_size,   \* batcher.batch_size
  i_other_loop,   \* batcher.loop is set and is not the loop of this job
  i_queue,        \* batcher._queue: the texts (by index) not yet collected
  i_results,      \* batcher._result_queue
  i_embeddings,   \* the list `embeddings` of process_reviews
  i_events,       \* history: the messages given to publish_event_sync, in order
  i_committed,    \* db.commit() was reached
  i_closed,       \* db.close() was reached
  i_cause         \* what raised: "none", "embedding" or "analyze_text"

importVars == << i_pc, i_n, i_job_id, i_batch_size, i_other_loop, i_queue,
                 i_results, i_embeddings, i_events, i_committed, i_closed, i_cause >>

vars == << scrapeVars, embedVars, analyzeVars, pipeVars, clientVars, importVars >>

NoResult == [ rows_written |-> 0, rows |-> <<>>, skipped_pages |-> <<>> ]

(***************************************************************************)
(* Pure functions of the parsers.                                          *)
(***************************************************************************)
\* _parse_datetime: None (NoDate) for a missing or unparseable value
ParseDatetime(raw) == IF raw = NoDate \/ raw = BadDate THEN NoDate ELSE raw

\* the same test with the comparison turned round
OlderThanThresholdReversed(threshold, raw) ==
  /\ threshold # NoThreshold
  /\ ParseDatetime(raw) # NoDate
  /\ ParseDatetime(raw) > threshold

\* the test both adapters apply to one item (lines 281 and 703)
OlderThanThreshold(threshold, raw) ==
  /\ threshold # NoThreshold
  /\ ParseDatetime(raw) # NoDate
  /\ ParseDatetime(raw) < threshold

BuildRow(item) == [ id |-> item.id, date |-> item.date, text |-> item.text ]

\* the loop over the items leaving out each older item and going on
RECURSIVE ProcessReviewItemsFiltering(_, _)
ProcessReviewItemsFiltering(items, threshold) ==
  IF items = <<>> THEN [ rows |-> <<>>, stop |-> FALSE ]
  ELSE LET rest == ProcessReviewItemsFiltering(Tail(items), threshold)
       IN  IF OlderThanThreshold(threshold, Head(items).date)
           THEN rest
           ELSE [ rows |-> << BuildRow(Head(items)) >> \o rest.rows,
                  stop |-> rest.stop ]

\* SravniParser._process_review_items: rows up to the first older item
RECURSIVE ProcessReviewItems(_, _)
ProcessReviewItems(items, threshold) ==
  IF items = <<>> THEN [ rows |-> <<>>, stop |-> FALSE ]
  ELSE IF OlderThanThreshold(threshold, Head(items).date)
       THEN [ rows |-> <<>>, stop |-> TRUE ]
       ELSE LET rest == ProcessReviewItems(Tail(items), threshold)
            IN  [ rows |-> << BuildRow(Head(items)) >> \o rest.rows,
                  stop |-> rest.stop ]

\* BankiRuParser.parse_reviews, the loop over _build_row
RECURSIVE BuildPageRows(_, _)
BuildPageRows(items, threshold) ==
  IF items = <<>> THEN [ rows |-> <<>>, stop |-> FALSE ]
  ELSE IF OlderThanThreshold(threshold, Head(items).date)
       THEN [ rows |-> <<>>, stop |-> TRUE ]
       ELSE LET rest == BuildPageRows(Tail(items), threshold)
            IN  [ rows |-> << BuildRow(Head(items)) >> \o rest.rows,
                  stop |-> rest.stop ]

\* the dedup key of _deduplicate_rows
DedupKey(row) ==
  IF row.id # NoId THEN << "id", row.id, "" >>
  ELSE << "content", row.date, row.text >>

\* the loop keeping, of the rows that share a key, the last one
RECURSIVE DedupKeepLast(_, _)
DedupKeepLast(rows, seen) ==
  IF rows = <<>> THEN <<>>
  ELSE IF \E j \in 2 .. Len(rows) : DedupKey(rows[j]) = DedupKey(Head(rows))
       THEN DedupKeepLast(Tail(rows), seen)
       ELSE << Head(rows) >> \o DedupKeepLast(Tail(rows), seen)

\* the loop of _deduplicate_rows over the rows left, `seen` being seen_keys
RECURSIVE DedupFrom(_, _)
DedupFrom(rows, seen) ==
  IF rows = <<>> THEN <<>>
  ELSE IF DedupKey(Head(rows)) \in seen
       THEN DedupFrom(Tail(rows), seen)
       ELSE << Head(rows) >> \o DedupFrom(Tail(rows), seen \cup { DedupKey(Head(rows)) })

\* BankiRuParser._deduplicate_rows
DeduplicateRows(rows) == DedupFrom(rows, {})

(***************************************************************************)
(* The scrape job.                                                         *)
(***************************************************************************)
otherThanScrape == << embedVars, analyzeVars, pipeVars, clientVars, importVars >>

InitScrape ==
  /\ source = "none"
  /\ adapter = "sravni"
  /\ page_size = 1
  /\ max_pages = 1
  /\ start_date = NoThreshold
  /\ pc = "idle"
  /\ error = "none"
  /\ page = 0
  /\ attempt = 1
  /\ parsed_rows = <<>>
  /\ skipped_pages = <<>>
  /\ result = NoResult
  /\ csv = <<>>
  /\ csv_written = FALSE
  /\ last_req = 0 - 1
  /\ last_status = 0
  /\ last_body = "none"
  /\ req_page = 0
  /\ n429 = 0
  /\ pages_got = <<>>
  /\ fetch_failed = {}
  /\ last_wait = 0
  /\ session_blocked = FALSE

Min2(a, b) == IF a <= b THEN a ELSE b

\* the wait after a 403 that does not grow with the attempt
BackoffBlockedFlat(n) == BLOCKED_BASE

\* line 543: the wait after a 403 on attempt n
BackoffBlocked(n) == Min2(BLOCKED_CAP, BLOCKED_BASE * n)

\* line 555: the wait after a 5xx on attempt n
BackoffServerError(n) == Min2(SERVER_ERROR_CAP, SERVER_ERROR_BASE * n)

\* the time.sleep that follows an answer before the next request of the job
\* (the random delay between two pages is left out)
WaitAfter(status) ==
  IF status = 429 THEN THROTTLE_SLEEP
  ELSE IF adapter = "sravni" THEN 0
  ELSE IF status = 0 - 1 THEN REQUEST_ERROR_SLEEP
  ELSE IF status = 403 THEN BackoffBlocked(attempt)
  ELSE IF status = 500 THEN BackoffServerError(attempt)
  ELSE 0

\* the session carrying on after a 403 or a 5xx
KeepSession == TRUE

\* _reset_session, lines 579-584: self._session is a new requests.Session
ResetSession == FALSE

\* one HTTP GET for the page in hand, answered with `status` and `body`
Request(status, body) ==
  /\ last_wait' = WaitAfter(status)
  /\ session_blocked' = IF adapter = "banki" /\ status \in { 403, 500 }
                        THEN ResetSession
                        ELSE session_blocked
  /\ last_req' = page
  /\ last_status' = status
  /\ last_body' = body
  /\ req_page' = IF last_req = page THEN req_page + 1 ELSE 1
  /\ n429' = (IF last_req = page THEN n429 ELSE 0) + (IF status = 429 THEN 1 ELSE 0)
  /\ IF body = "payload" THEN TRUE ELSE pages_got' = pages_got

Raise(kind) ==
  /\ pc' = "failed"
  /\ error' = kind
  /\ UNCHANGED << result, csv, csv_written >>

\* lines 145-160 and 366-382: the parameter checks, then the first page.  The
\* job is a direct call of either parser, or one posted to /parser/run, whose
\* schema has let it through (page_size >= 1, max_pages >= 1, min_delay <=
\* max_delay) and whose handler has chosen the parser.
StartJob ==
  /\ UNCHANGED otherThanScrape
  /\ pc = "idle"
  /\ \E src \in { "none" } \cup ParserSources, a \in Adapters, ps \in PageSizes,
        mp \in 0 .. MaxPages, sd \in Thresholds, delay_ok \in BOOLEAN :
       /\ src # "none" => (a = RouteAdapter(src) /\ ps >= 1 /\ mp >= 1 /\ delay_ok)
       /\ source' = src
       /\ adapter' = a
       /\ page_size' = ps
       /\ max_pages' = mp
       /\ start_date' = sd
       /\ IF ps <= 0 \/ mp <= 0 \/ ~delay_ok
          THEN /\ Raise("config")
               /\ page' = page
          ELSE /\ pc' = "run"
               /\ page' = IF a = "sravni" THEN 0 ELSE 1
               /\ UNCHANGED << error, result, csv, csv_written >>
  /\ UNCHANGED << attempt, parsed_rows, skipped_pages, fetch_failed, last_req,
                  last_status, last_body, req_page, n429, pages_got, last_wait,
                  session_blocked >>

\* the end of the sravni job without the test for an empty list of rows
SravniFinishUnchecked(rows) ==
  \E fn \in Filenames :
    IF fn = "blank" THEN Raise("filename")
    ELSE /\ csv' = rows
         /\ csv_written' = TRUE
         /\ result' = [ rows_written |-> Len(rows), rows |-> rows,
                        skipped_pages |-> <<>> ]
         /\ pc' = "done"
         /\ error' = "none"

\* lines 215-255: what the sravni job does once its page loop is over
SravniFinish(rows) ==
  \E fn \in Filenames :
    IF rows = <<>> THEN Raise("norows")
    ELSE IF fn = "blank" THEN Raise("filename")
    ELSE /\ csv' = rows
         /\ csv_written' = TRUE
         /\ result' = [ rows_written |-> Len(rows), rows |-> rows,
                        skipped_pages |-> <<>> ]
         /\ pc' = "done"
         /\ error' = "none"

\* the page loop of the sravni job goes to its next iteration
SravniNextPage(rows) ==
  IF page + 1 < max_pages
  THEN /\ page' = page + 1
       /\ pc' = "run"
       /\ UNCHANGED << error, result, csv, csv_written >>
  ELSE /\ page' = page
       /\ SravniFinish(rows)

\* lines 174-177: HTTP 429
SravniThrottled ==
  /\ UNCHANGED otherThanScrape
  /\ pc = "run" /\ adapter = "sravni"
  /\ Request(429, "none")
  /\ parsed_rows' = parsed_rows
  /\ SravniNextPage(parsed_rows)
  /\ UNCHANGED << source, adapter, page_size, max_pages, start_date, attempt, skipped_pages, fetch_failed >>

\* lines 169-173 and 178-185: the GET raised (nothing catches it), a status
\* other than 200 and 429, or a body that is not JSON
SravniAbort ==
  /\ UNCHANGED otherThanScrape
  /\ pc = "run" /\ adapter = "sravni"
  /\ \/ Request(0 - 1, "none") /\ Raise("request")
     \/ \E status \in { 403, 404, 500 } : Request(status, "none") /\ Raise("status")
     \/ Request(200, "notjson") /\ Raise("json")
  /\ UNCHANGED << source, adapter, page_size, max_pages, start_date, page, attempt,
                  parsed_rows, skipped_pages, fetch_failed >>

\* a page that is not taken for the last one
LastPageNever(items, size) == FALSE

\* line 209: fewer items than asked for, the page is the last one
LastPage(items, size) == Len(items) < size

\* lines 186-213: a 200 response with a JSON body
SravniPage ==
  /\ UNCHANGED otherThanScrape
  /\ pc = "run" /\ adapter = "sravni"
  /\ Request(200, "payload")
  /\ \E items \in SeqsUpTo(Items, page_size) :
       LET out  == ProcessReviewItems(items, start_date)
           rows == parsed_rows \o out.rows
       IN  /\ pages_got' = Append(pages_got, items)
           /\ IF items = <<>>
              THEN /\ parsed_rows' = parsed_rows
                   /\ page' = page
                   /\ SravniFinish(parsed_rows)
              ELSE /\ parsed_rows' = rows
                   /\ IF out.stop \/ LastPage(items, page_size)
                      THEN /\ page' = page
                           /\ SravniFinish(rows)
                      ELSE SravniNextPage(rows)
  /\ UNCHANGED << source, adapter, page_size, max_pages, start_date, attempt, skipped_pages, fetch_failed >>

\* lines 449-489: what the banki job does once its page loop is over
BankiFinish(rows, skipped) ==
  \E fn \in Filenames :
    IF rows = <<>> THEN Raise("norows")
    ELSE IF fn = "blank" THEN Raise("filename")
    ELSE LET unique_rows == DeduplicateRows(rows)
         IN  /\ csv' = unique_rows
             /\ csv_written' = TRUE
             /\ result' = [ rows_written |-> Len(unique_rows), rows |-> unique_rows,
                            skipped_pages |-> skipped ]
             /\ pc' = "done"
             /\ error' = "none"

\* the page loop of the banki job goes to its next iteration
BankiNextPage(rows, skipped) ==
  /\ attempt' = 1
  /\ IF page + 1 <= max_pages
     THEN /\ page' = page + 1
          /\ pc' = "run"
          /\ UNCHANGED << error, result, csv, csv_written >>
     ELSE /\ page' = page
          /\ BankiFinish(rows, skipped)

\* the handler of the fetch error going on without recording the page
BankiSkipPageUnrecorded ==
  /\ fetch_failed' = fetch_failed \cup { page }
  /\ skipped_pages' = skipped_pages
  /\ parsed_rows' = parsed_rows
  /\ BankiNextPage(parsed_rows, skipped_pages)

\* lines 389-398: _fetch_banki_page raised, the page is skipped
BankiSkipPage ==
  /\ fetch_failed' = fetch_failed \cup { page }
  /\ skipped_pages' = Append(skipped_pages, page)
  /\ parsed_rows' = parsed_rows
  /\ BankiNextPage(parsed_rows, Append(skipped_pages, page))

\* the attempt loop running one time too many
BankiRetryOneMore ==
  IF attempt + 1 <= DEFAULT_MAX_RETRIES + 1
  THEN /\ attempt' = attempt + 1
       /\ UNCHANGED << page, pc, error, result, csv, csv_written,
                       parsed_rows, skipped_pages, fetch_failed >>
  ELSE BankiSkipPage

\* the `continue` of the attempt loop of _fetch_banki_page (lines 515, 575-577)
BankiRetry ==
  IF attempt + 1 <= DEFAULT_MAX_RETRIES
  THEN /\ attempt' = attempt + 1
       /\ UNCHANGED << page, pc, error, result, csv, csv_written,
                       parsed_rows, skipped_pages, fetch_failed >>
  ELSE BankiSkipPage

\* lines 522-531: the GET raised requests.RequestException
BankiRequestError ==
  /\ UNCHANGED otherThanScrape
  /\ pc = "run" /\ adapter = "banki"
  /\ Request(0 - 1, "none")
  /\ BankiRetry
  /\ UNCHANGED << source, adapter, page_size, max_pages, start_date >>

\* a 429 that waits and asks again without using up an attempt
BankiThrottledSameAttempt ==
  /\ UNCHANGED otherThanScrape
  /\ pc = "run" /\ adapter = "banki"
  /\ Request(429, "none")
  /\ UNCHANGED << attempt, page, pc, error, result, csv, csv_written, parsed_rows,
                  skipped_pages, fetch_failed >>
  /\ UNCHANGED << source, adapter, page_size, max_pages, start_date >>

\* lines 533-541: HTTP 429
BankiThrottled ==
  /\ UNCHANGED otherThanScrape
  /\ pc = "run" /\ adapter = "banki"
  /\ Request(429, "none")
  /\ BankiRetry
  /\ UNCHANGED << source, adapter, page_size, max_pages, start_date >>

\* lines 542-553: HTTP 403
BankiBlocked ==
  /\ UNCHANGED otherThanScrape
  /\ pc = "run" /\ adapter = "banki"
  /\ Request(403, "none")
  /\ BankiRetry
  /\ UNCHANGED << source, adapter, page_size, max_pages, start_date >>

\* lines 554-566: HTTP 5xx
BankiServerError ==
  /\ UNCHANGED otherThanScrape
  /\ pc = "run" /\ adapter = "banki"
  /\ Request(500, "none")
  /\ BankiRetry
  /\ UNCHANGED << source, adapter, page_size, max_pages, start_date >>

\* lines 567-572: any other status than 200
BankiUnexpected ==
  /\ UNCHANGED otherThanScrape
  /\ pc = "run" /\ adapter = "banki"
  /\ Request(404, "none")
  /\ BankiSkipPage
  /\ UNCHANGED << source, adapter, page_size, max_pages, start_date >>

\* the payload extraction inside the try block of the page fetch: the
\* missing payload skips the page
BankiDriftCaught ==
  /\ UNCHANGED otherThanScrape
  /\ pc = "run" /\ adapter = "banki"
  /\ Request(200, "nopayload")
  /\ BankiSkipPage
  /\ UNCHANGED << source, adapter, page_size, max_pages, start_date >>

\* lines 400 and 604-625: the page has no data-module-options payload with
\* `responses`; the error is raised outside the try block of lines 387-398
BankiDrift ==
  /\ UNCHANGED otherThanScrape
  /\ pc = "run" /\ adapter = "banki"
  /\ Request(200, "nopayload")
  /\ Raise("drift")
  /\ UNCHANGED << source, adapter, page_size, max_pages, start_date, page, attempt,
                  parsed_rows, skipped_pages, fetch_failed >>

\* lines 400-447: a 200 response with the payload
BankiPage ==
  /\ UNCHANGED otherThanScrape
  /\ pc = "run" /\ adapter = "banki"
  /\ Request(200, "payload")
  /\ \E items \in SeqsUpTo(Items, page_size), has_more \in BOOLEAN :
       LET out  == BuildPageRows(items, start_date)
           rows == parsed_rows \o out.rows
       IN  /\ pages_got' = Append(pages_got, items)
           /\ IF items = <<>>
              THEN /\ parsed_rows' = parsed_rows
                   /\ page' = page
                   /\ attempt' = attempt
                   /\ BankiFinish(parsed_rows, skipped_pages)
              ELSE /\ parsed_rows' = rows
                   /\ IF out.stop \/ ~has_more
                      THEN /\ page' = page
                           /\ attempt' = attempt
                           /\ BankiFinish(rows, skipped_pages)
                      ELSE BankiNextPage(rows, skipped_pages)
  /\ UNCHANGED << source, adapter, page_size, max_pages, start_date, skipped_pages, fetch_failed >>

NextScrape ==
  \/ StartJob
  \/ SravniThrottled
  \/ SravniAbort
  \/ SravniPage
  \/ BankiRequestError
  \/ BankiThrottled
  \/ BankiBlocked
  \/ BankiServerError
  \/ BankiUnexpected
  \/ BankiDrift
  \/ BankiPage

(***************************************************************************)
(* generate_embeddings_async.  A text is its position in the caller's      *)
(* list, the vector computed for text t is t, None is NoVector.            *)
(***************************************************************************)
otherThanEmbed == << scrapeVars, analyzeVars, pipeVars, clientVars, importVars >>

NoVector == 0
StrayVector == 99
BatchSizes == { 0, 1, 2 }

InitEmbed ==
  /\ e_pc = "idle"
  /\ e_texts = <<>>
  /\ e_batch = 1
  /\ e_start = 0
  /\ e_embeddings = <<>>
  /\ e_calls = 0

Max(a, b) == IF a >= b THEN a ELSE b
Min(a, b) == IF a <= b THEN a ELSE b

Nones(n) == [ i \in 1 .. n |-> NoVector ]

\* sorted(response.data, key=lambda item: item.index), line 104
RECURSIVE InsertByIndex(_, _)
InsertByIndex(item, sorted) ==
  IF sorted = <<>> THEN << item >>
  ELSE IF item.index < Head(sorted).index
       THEN << item >> \o sorted
       ELSE << Head(sorted) >> \o InsertByIndex(item, Tail(sorted))

RECURSIVE SortByIndex(_)
SortByIndex(data) ==
  IF data = <<>> THEN <<>>
  ELSE InsertByIndex(data[Len(data)], SortByIndex(SubSeq(data, 1, Len(data) - 1)))

\* line 105: [item.embedding for item in ordered]
EmbeddingsOf(ordered) == [ i \in 1 .. Len(ordered) |-> ordered[i].embedding ]

\* lines 111-113: the list is filled up with None to the length of texts
PadToTexts(embeddings, n) ==
  IF Len(embeddings) < n THEN embeddings \o Nones(n - Len(embeddings)) ELSE embeddings

\* the response bodies the embedding API may give for a chunk: items for some
\* of the chunk's positions, possibly one item too many, in any order
RECURSIVE Arrangements(_)
Arrangements(S) ==
  IF S = {} THEN { <<>> }
  ELSE UNION { { << x >> \o t : t \in Arrangements(S \ { x }) } : x \in S }

ResponseData(chunk) ==
  LET item(k) == [ index |-> k,
                   embedding |-> IF k < Len(chunk) THEN chunk[k + 1] ELSE StrayVector ]
  IN  UNION { { [ i \in 1 .. Len(a) |-> item(a[i]) ] : a \in Arrangements(K) }
              : K \in SUBSET (0 .. Len(chunk)) }

\* lines 84-90
EmbedStart ==
  /\ UNCHANGED otherThanEmbed
  /\ e_pc = "idle"
  /\ \E n \in 0 .. MaxTexts, key \in BOOLEAN, cfg \in BatchSizes :
       /\ e_texts' = [ i \in 1 .. n |-> i ]
       /\ e_batch' = Max(1, cfg)
       /\ e_start' = 0
       /\ IF n = 0
          THEN e_embeddings' = <<>> /\ e_pc' = "returned"
          ELSE IF ~ key
          THEN e_embeddings' = Nones(n) /\ e_pc' = "returned"
          ELSE e_embeddings' = <<>> /\ e_pc' = "loop"
  /\ UNCHANGED e_calls

\* the chunk loop goes on, or the function returns (lines 93, 111-113)
EmbedContinue(embeddings) ==
  /\ e_start' = e_start + e_batch
  /\ IF e_start + e_batch < Len(e_texts)
     THEN e_embeddings' = embeddings /\ e_pc' = "loop"
     ELSE e_embeddings' = PadToTexts(embeddings, Len(e_texts)) /\ e_pc' = "returned"

EmbedChunkOf == SubSeq(e_texts, e_start + 1, Min(e_start + e_batch, Len(e_texts)))

\* lines 95-103: create_embeddings raised
EmbedChunkFailed ==
  /\ UNCHANGED otherThanEmbed
  /\ e_pc = "loop"
  /\ e_calls' = e_calls + 1
  /\ EmbedContinue(e_embeddings \o Nones(Len(EmbedChunkOf)))
  /\ UNCHANGED << e_texts, e_batch >>

\* lines 96-105: create_embeddings answered
EmbedChunkAnswered ==
  /\ UNCHANGED otherThanEmbed
  /\ e_pc = "loop"
  /\ e_calls' = e_calls + 1
  /\ \E data \in ResponseData(EmbedChunkOf) :
       EmbedContinue(e_embeddings \o EmbeddingsOf(SortByIndex(data)))
  /\ UNCHANGED << e_texts, e_batch >>

\* lines 104-113: the answer cannot be read (an item without index or
\* embedding), the outer handler ends the loop
EmbedChunkUnreadable ==
  /\ UNCHANGED otherThanEmbed
  /\ e_pc = "loop"
  /\ e_calls' = e_calls + 1
  /\ e_start' = e_start
  /\ e_embeddings' = PadToTexts(e_embeddings \o Nones(Max(0, Len(e_texts) - Len(e_embeddings))),
                                Len(e_texts))
  /\ e_pc' = "returned"
  /\ UNCHANGED << e_texts, e_batch >>

NextEmbed ==
  \/ EmbedStart
  \/ EmbedChunkFailed
  \/ EmbedChunkAnswered
  \/ EmbedChunkUnreadable

(***************************************************************************)
(* analyze_text_async.  Scores and polarities are in tenths.               *)
(***************************************************************************)
otherThanAnalyze == << scrapeVars, embedVars, pipeVars, clientVars, importVars >>

NoScore == 999
CHAT_BACKOFF_SECONDS == 1

Labels == { "positive", "negative", "neutral" }
Texts == 1 .. 4
ChatRetries == { 0, 2, 3 }
TransientErrors == { "connection", "timeout", "rate_limit", "status_5xx", "status_4xx" }

\* TextBlob(text).sentiment.polarity, a number of [-1, 1], for the texts above
Polarity(text) ==
  CASE text = 1 -> 8
    [] text = 2 -> 0 - 7
    [] text = 3 -> 1
    [] OTHER    -> 0 - 10

NoResultYet == [ sentiment |-> "", sentiment_score |-> NoScore, embedding |-> NoVector,
                 highlights |-> 0, source |-> "" ]

\* _fallback_analysis, lines 44-59
FallbackAnalysis(text) ==
  [ sentiment |-> IF Polarity(text) > 1 THEN "positive"
                  ELSE IF Polarity(text) < 0 - 1 THEN "negative"
                  ELSE "neutral",
    sentiment_score |-> Polarity(text),
    embedding |-> NoVector,
    highlights |-> 0,
    source |-> "fallback" ]

\* the JSON objects the chat model may answer with
Payloads ==
  [ schema_ok : BOOLEAN,
    sentiment : Labels \cup { "mixed" },
    sentiment_score : { NoScore, 0 - 20, 0 - 10, 3, 10, 15 },
    highlights : { 0, 5, 6 } ]

\* what completion.choices[0].message.content may hold
Contents ==
  [ form : { "empty", "garbage" }, payload : { CHOOSE p \in Payloads : TRUE } ]
    \cup [ form : { "json", "fenced" }, payload : Payloads ]

\* _parse_model_response, lines 62-80: the JSON object, or ValueError
ParseModelResponse(content) ==
  IF content.form \in { "empty", "garbage" }
  THEN [ ok |-> FALSE, raw |-> content.payload ]
  ELSE [ ok |-> TRUE, raw |-> content.payload ]

\* SentimentPayload.clean without the test of the label
CleanAnyLabel(raw) == raw.schema_ok

\* SentimentPayload.clean without model_validate
CleanAnySchema(raw) == raw.sentiment \in Labels

\* SentimentPayload.clean, lines 23-37: whether the payload is accepted
Clean(raw) == raw.schema_ok /\ raw.sentiment \in Labels

\* what the answer of the chat API was: "valid", or why it is not
ContentKind(content) ==
  IF content.form \in { "empty", "garbage" } THEN content.form
  ELSE IF ~ content.payload.schema_ok THEN "schema"
  ELSE IF content.payload.sentiment \notin Labels THEN "label"
  ELSE "valid"

\* the key test passing without a key
LlmAvailableAlways(key) == TRUE

\* _llm_available, lines 40-41
LlmAvailable(key) == key

\* the retry loop running one time too many
MoreAttemptsOneMore(n, retries) == n + 1 < retries + 1

\* line 157, for attempt in range(retries): whether an attempt follows
MoreAttempts(n, retries) == n + 1 < retries

MAX_STORED_HIGHLIGHTS == 5

\* _build_review, reviews.py lines 30-32: how many highlights the bulk import
\* stores for a result carrying h of them
BuildReviewHighlights(h) == Min(h, MAX_STORED_HIGHLIGHTS)

\* analyze_sentiment_task, sentiment.py lines 23-25: how many highlights the
\* single-review task stores
TaskHighlights(h) == h

InitAnalyze ==
  /\ a_pc = "idle"
  /\ a_text = 1
  /\ a_embedding = NoVector
  /\ a_key = FALSE
  /\ a_cfg = 1
  /\ a_last = "none"
  /\ a_local = NoVector
  /\ a_attempt = 0
  /\ a_retries = 1
  /\ a_result = NoResultYet
  /\ a_chat_calls = 0
  /\ a_embed_calls = 0
  /\ a_delays = <<>>

\* lines 200-207: the heuristic result, with the embedding when there is one
ReturnFallback(local) ==
  /\ a_result' = [ FallbackAnalysis(a_text) EXCEPT !.embedding = local ]
  /\ a_pc' = "returned"

\* lines 119-125 entered: the key test and the choice of the embedding
AnalyzeStart ==
  /\ UNCHANGED otherThanAnalyze
  /\ a_pc = "idle"
  /\ \E text \in Texts, key \in BOOLEAN, given \in BOOLEAN, cfg \in ChatRetries :
       /\ a_text' = text
       /\ a_embedding' = IF given THEN text ELSE NoVector
       /\ a_key' = key
       /\ a_cfg' = cfg
       /\ a_retries' = Max(1, cfg)
       /\ IF ~ LlmAvailable(key)
          THEN /\ a_result' = FallbackAnalysis(text)
               /\ a_pc' = "returned"
               /\ a_local' = a_local
          ELSE /\ a_result' = a_result
               /\ a_local' = IF given THEN text ELSE NoVector
               /\ a_pc' = IF given THEN "chat" ELSE "embed"
  /\ UNCHANGED << a_attempt, a_chat_calls, a_embed_calls, a_delays, a_last >>

\* lines 123-125: generate_embeddings_async([text]), its one API call
AnalyzeEmbed ==
  /\ UNCHANGED otherThanAnalyze
  /\ a_pc = "embed"
  /\ a_embed_calls' = a_embed_calls + 1
  /\ \/ a_local' = NoVector
     \/ \E data \in ResponseData(<< a_text >>) :
          a_local' = PadToTexts(EmbeddingsOf(SortByIndex(data)), 1)[1]
  /\ a_pc' = "chat"
  /\ UNCHANGED << a_text, a_embedding, a_key, a_cfg, a_attempt, a_retries, a_result,
                  a_chat_calls, a_delays, a_last >>

\* lines 181-191: the call raised one of the four retried errors
AnalyzeChatTransient ==
  /\ UNCHANGED otherThanAnalyze
  /\ a_pc = "chat"
  /\ \E kind \in TransientErrors :
       /\ a_chat_calls' = a_chat_calls + 1
       /\ a_delays' = Append(a_delays, CHAT_BACKOFF_SECONDS * (a_attempt + 1))
       /\ a_attempt' = a_attempt + 1
       /\ a_last' = kind
       /\ IF MoreAttempts(a_attempt, a_retries)
          THEN UNCHANGED << a_pc, a_result >>
          ELSE ReturnFallback(a_local)
  /\ UNCHANGED << a_text, a_embedding, a_key, a_cfg, a_local, a_retries, a_embed_calls >>

\* lines 195-198: the call, or reading its answer, raised anything else
AnalyzeChatError ==
  /\ UNCHANGED otherThanAnalyze
  /\ a_pc = "chat"
  /\ a_chat_calls' = a_chat_calls + 1
  /\ a_last' = "other"
  /\ ReturnFallback(a_local)
  /\ UNCHANGED << a_text, a_embedding, a_key, a_cfg, a_local, a_attempt, a_retries,
                  a_embed_calls, a_delays >>

\* lines 159-180 and 192-198: the call answered
AnalyzeChatAnswered ==
  /\ UNCHANGED otherThanAnalyze
  /\ a_pc = "chat"
  /\ a_chat_calls' = a_chat_calls + 1
  /\ \E content \in Contents :
       LET parsed == ParseModelResponse(content)
       IN  /\ a_last' = ContentKind(content)
           /\ IF parsed.ok /\ Clean(parsed.raw)
              THEN /\ a_result' = [ sentiment |-> parsed.raw.sentiment,
                                    sentiment_score |-> parsed.raw.sentiment_score,
                                    embedding |-> a_local,
                                    highlights |-> parsed.raw.highlights,
                                    source |-> "llm" ]
                   /\ a_pc' = "returned"
              ELSE ReturnFallback(a_local)
  /\ UNCHANGED << a_text, a_embedding, a_key, a_cfg, a_local, a_attempt, a_retries,
                  a_embed_calls, a_delays >>

NextAnalyze ==
  \/ AnalyzeStart
  \/ AnalyzeEmbed
  \/ AnalyzeChatTransient
  \/ AnalyzeChatError
  \/ AnalyzeChatAnswered

(***************************************************************************)
(* process_reviews and the EmbeddingBatcher.  The text i of caller c is    *)
(* << c, i >>; an embedding is the text it was computed for and whether    *)
(* it is a vector or None.                                                 *)
(***************************************************************************)
otherThanPipe == << scrapeVars, embedVars, analyzeVars, clientVars, importVars >>

EMBEDDING_BATCH_SIZE == 16
Callers == 1 .. MaxCallers
BatcherSizes == { 1, 2, EMBEDDING_BATCH_SIZE }

InitPipe ==
  /\ p_batch_size \in BatcherSizes
  /\ p_started = FALSE
  /\ p_runner = "none"
  /\ p_last = [ batch |-> <<>>, outcome |-> "none", put |-> <<>> ]
  /\ p_queue = <<>>
  /\ p_results = <<>>
  /\ p_getters = <<>>
  /\ p_woken = <<>>
  /\ p_pc = [ c \in Callers |-> "idle" ]
  /\ p_n = [ c \in Callers |-> 0 ]
  /\ p_embeddings = [ c \in Callers |-> <<>> ]
  /\ p_enqueued = <<>>
  /\ p_dispatched = <<>>

\* the loop of pipeline.py lines 30-31 as far as it runs without suspending:
\* get() returns at once while _result_queue holds a batch result
RECURSIVE TakeResults(_, _, _)
TakeResults(embeddings, results, n) ==
  IF Len(embeddings) < n /\ results # <<>>
  THEN TakeResults(embeddings \o Head(results), Tail(results), n)
  ELSE [ embeddings |-> embeddings, results |-> results ]

\* pipeline.py lines 30-38 for caller c, entered or resumed: it takes what
\* the result queue holds; short of len(texts) it suspends in get(), else it
\* goes on to analyze_text, which is asyncio.run (ml.py lines 210-211) called
\* from the running loop and raises RuntimeError
Gather(c, n) ==
  LET got == TakeResults(p_embeddings[c], p_results, n)
  IN  /\ p_embeddings' = [ p_embeddings EXCEPT ![c] = got.embeddings ]
      /\ p_results' = got.results
      /\ IF Len(got.embeddings) < n
         THEN /\ p_getters' = Append(p_getters, c)
              /\ p_pc' = [ p_pc EXCEPT ![c] = "waiting" ]
         ELSE /\ p_getters' = p_getters
              /\ p_pc' = [ p_pc EXCEPT ![c] = "raised" ]

\* process_reviews, lines 17-31, up to its first suspension
PipeCall(c) ==
  /\ UNCHANGED otherThanPipe
  /\ p_pc[c] = "idle"
  /\ \E n \in 0 .. MaxCallTexts :
       /\ p_n' = [ p_n EXCEPT ![c] = n ]
       /\ IF n = 0
          THEN /\ p_pc' = [ p_pc EXCEPT ![c] = "returned" ]
               /\ UNCHANGED << p_started, p_runner, p_queue, p_results, p_getters,
                               p_embeddings, p_enqueued >>
          ELSE /\ p_started' = TRUE
               /\ p_runner' = IF p_started THEN p_runner ELSE "running"
               /\ p_queue' = p_queue \o [ i \in 1 .. n |-> << c, i >> ]
               /\ p_enqueued' = p_enqueued \o [ i \in 1 .. n |-> << c, i >> ]
               /\ Gather(c, n)
  /\ UNCHANGED << p_batch_size, p_woken, p_last, p_dispatched >>

\* process_reviews resumed in get_embeddings, line 31
PipeResume(c) ==
  /\ UNCHANGED otherThanPipe
  /\ p_woken # <<>> /\ Head(p_woken) = c
  /\ p_woken' = Tail(p_woken)
  /\ Gather(c, p_n[c])
  /\ UNCHANGED << p_batch_size, p_started, p_runner, p_last, p_queue, p_n,
                  p_enqueued, p_dispatched >>

\* generate_embeddings(batch): one entry per text of the batch, in order
GenerateEmbeddings(batch, ok) ==
  [ i \in 1 .. Len(batch) |-> [ for |-> batch[i], vector |-> ok ] ]

\* the batch taking one text more than batch_size
CollectBatchOneMore == SubSeq(p_queue, 1, Min(p_batch_size + 1, Len(p_queue)))

\* EmbeddingBatcher._collect_batch, lines 39-51, with the queue not empty
CollectBatch == SubSeq(p_queue, 1, Min(p_batch_size, Len(p_queue)))

\* what generate_embeddings(batch) may do: return vectors, return a list of
\* None, or raise
EmbedOutcomes == { "vectors", "nones", "raised" }

\* the exception handler putting nothing in the place of the batch
RunnerEmbeddingsDropped(batch, outcome) ==
  IF outcome = "raised" THEN <<>>
  ELSE GenerateEmbeddings(batch, outcome = "vectors")

\* lines 32-36: the list `embeddings` of one turn of _runner
RunnerEmbeddings(batch, outcome) ==
  IF outcome = "raised"
  THEN [ i \in 1 .. Len(batch) |-> [ for |-> batch[i], vector |-> FALSE ] ]
  ELSE GenerateEmbeddings(batch, outcome = "vectors")

\* lines 28 and 34-37: the exception is handled inside the loop, which goes on
RunnerAfter(outcome) == "running"

\* one turn of EmbeddingBatcher._runner, lines 28-37: the batch is collected,
\* embedded (or, on an exception, filled with None) and its result is put,
\* which wakes the first caller suspended in get()
RunnerBatch ==
  /\ UNCHANGED otherThanPipe
  /\ p_runner = "running" /\ p_queue # <<>>
  /\ \E outcome \in EmbedOutcomes :
       /\ p_results' = Append(p_results, RunnerEmbeddings(CollectBatch, outcome))
       /\ p_last' = [ batch |-> CollectBatch, outcome |-> outcome,
                      put |-> RunnerEmbeddings(CollectBatch, outcome) ]
       /\ p_runner' = RunnerAfter(outcome)
  /\ p_queue' = SubSeq(p_queue, Len(CollectBatch) + 1, Len(p_queue))
  /\ p_dispatched' = Append(p_dispatched, CollectBatch)
  /\ IF p_getters # <<>>
     THEN p_woken' = Append(p_woken, Head(p_getters)) /\ p_getters' = Tail(p_getters)
     ELSE UNCHANGED << p_woken, p_getters >>
  /\ UNCHANGED << p_batch_size, p_started, p_pc, p_n, p_embeddings, p_enqueued >>

\* one turn of _runner with nothing queued, lines 28-31 and 41-45: the wait
\* for the first text times out, _collect_batch returns [] and the loop goes on
RunnerTimeout ==
  /\ UNCHANGED otherThanPipe
  /\ p_runner = "running" /\ p_queue = <<>>
  /\ p_last' = [ batch |-> <<>>, outcome |-> "timeout", put |-> <<>> ]
  /\ UNCHANGED << p_batch_size, p_started, p_runner, p_queue, p_results, p_getters,
                  p_woken, p_pc, p_n, p_embeddings, p_enqueued, p_dispatched >>

NextPipeline ==
  \/ \E c \in Callers : PipeCall(c)
  \/ \E c \in Callers : PipeResume(c)
  \/ RunnerBatch
  \/ RunnerTimeout

(***************************************************************************)
(* create_chat_completion and create_embeddings under their semaphores.    *)
(* The semaphore is asyncio.Semaphore: acquire takes a permit at once      *)
(* unless the value is 0 or a task is queued, release hands the permit to  *)
(* the first queued task that was not woken yet.                           *)
(***************************************************************************)
otherThanClient == << scrapeVars, embedVars, analyzeVars, pipeVars, importVars >>

CHAT_CONCURRENCY_DEFAULT == 3
EMBEDDING_CONCURRENCY_DEFAULT == 5
NotSet == 0 - 1

Kinds == { "chat", "embed" }
Tasks == 1 .. MaxTasks
ConcurrencySettings == { NotSet, 0, 2 }
DefaultSettings == [ k \in Kinds |-> NotSet ]

\* getattr(settings, name, default)
GetSetting(value, default) == IF value = NotSet THEN default ELSE value

\* lines 9-10: the initial value of the semaphore of each kind of call
Cap(k) ==
  Max(1, GetSetting(s_cfg[k], IF k = "chat" THEN CHAT_CONCURRENCY_DEFAULT
                              ELSE EMBEDDING_CONCURRENCY_DEFAULT))

\* both kinds of call under the embedding semaphore
SemaphoreShared(k) == "embed"

\* lines 23 and 29: the semaphore a call of kind k runs under
SemaphoreOf(k) == k

InitClient ==
  /\ s_cfg \in [ Kinds -> ConcurrencySettings ]
  /\ s_value = [ k \in Kinds |-> Cap(k) ]
  /\ s_waiters = [ k \in Kinds |-> <<>> ]
  /\ s_pc = [ t \in Tasks |-> "idle" ]
  /\ s_kind = [ t \in Tasks |-> "none" ]
  /\ s_last = "none"

\* Semaphore._wake_up_next on semaphore m: the first queued task that was not
\* woken yet is woken and the permit is taken for it
WakeUpNext(m, value, waiters, pcs) ==
  LET pending == { i \in 1 .. Len(waiters[m]) : pcs[waiters[m][i]] = "waiting" }
  IN  IF pending = {} THEN [ value |-> value, pc |-> pcs ]
      ELSE LET i == CHOOSE j \in pending : \A l \in pending : j <= l
           IN  [ value |-> [ value EXCEPT ![m] = @ - 1 ],
                 pc |-> [ pcs EXCEPT ![waiters[m][i]] = "woken" ] ]

RECURSIVE Without(_, _)
Without(seq, t) ==
  IF seq = <<>> THEN <<>>
  ELSE IF Head(seq) = t THEN Tail(seq)
  ELSE << Head(seq) >> \o Without(Tail(seq), t)

\* a task enters create_chat_completion or create_embeddings: Semaphore.acquire
\* up to its return or its suspension
ClientCall(t, k) ==
  /\ UNCHANGED otherThanClient
  /\ s_pc[t] = "idle"
  /\ s_kind' = [ s_kind EXCEPT ![t] = k ]
  /\ LET m == SemaphoreOf(k)
     IN  IF s_value[m] = 0 \/ s_waiters[m] # <<>>
         THEN /\ s_waiters' = [ s_waiters EXCEPT ![m] = Append(@, t) ]
              /\ s_pc' = [ s_pc EXCEPT ![t] = "waiting" ]
              /\ UNCHANGED s_value
         ELSE /\ s_value' = [ s_value EXCEPT ![m] = @ - 1 ]
              /\ s_pc' = [ s_pc EXCEPT ![t] = "inflight" ]
              /\ UNCHANGED s_waiters
  /\ UNCHANGED << s_cfg, s_last >>

\* a woken task resumes in Semaphore.acquire: it leaves the queue, passes a
\* permit that is free on to the next queued task, and issues its API call
ClientResume(t) ==
  /\ UNCHANGED otherThanClient
  /\ s_pc[t] = "woken"
  /\ LET m == SemaphoreOf(s_kind[t])
         waiters == [ s_waiters EXCEPT ![m] = Without(@, t) ]
         pcs == [ s_pc EXCEPT ![t] = "inflight" ]
         woke == IF s_value[m] > 0 THEN WakeUpNext(m, s_value, waiters, pcs)
                 ELSE [ value |-> s_value, pc |-> pcs ]
     IN  /\ s_waiters' = waiters
         /\ s_value' = woke.value
         /\ s_pc' = woke.pc
  /\ UNCHANGED << s_cfg, s_kind, s_last >>

\* `async with` left, on a return as on an exception: Semaphore.release
Release(t) ==
  LET m == SemaphoreOf(s_kind[t])
      woke == WakeUpNext(m, [ s_value EXCEPT ![m] = @ + 1 ], s_waiters,
                         [ s_pc EXCEPT ![t] = "idle" ])
  IN  /\ s_value' = woke.value
      /\ s_pc' = woke.pc
      /\ s_kind' = [ s_kind EXCEPT ![t] = "none" ]
      /\ UNCHANGED << s_cfg, s_waiters >>

\* the API call of task t returned
ClientReturn(t) ==
  /\ UNCHANGED otherThanClient
  /\ s_pc[t] = "inflight"
  /\ Release(t)
  /\ s_last' = "returned"

\* the API call of task t raised
ClientRaise(t) ==
  /\ UNCHANGED otherThanClient
  /\ s_pc[t] = "inflight"
  /\ Release(t)
  /\ s_last' = "raised"

NextClient ==
  \/ \E t \in Tasks, k \in Kinds : ClientCall(t, k)
  \/ \E t \in Tasks : ClientResume(t)
  \/ \E t \in Tasks : ClientReturn(t)
  \/ \E t \in Tasks : ClientRaise(t)

(***************************************************************************)
(* The import job: import_reviews_task runs _process under asyncio.run,    *)
(* which awaits import_reviews_async and, in it, process_reviews for the   *)
(* texts of the records.  Text i is << 0, i >>.                            *)
(***************************************************************************)
otherThanImport == << scrapeVars, embedVars, analyzeVars, pipeVars, clientVars >>

JobIds == { "", "job" }
RecordCounts == 0 .. MaxRecords

InitImport ==
  /\ i_pc = "idle"
  /\ i_n = 0
  /\ i_job_id = ""
  /\ i_batch_size = EMBEDDING_BATCH_SIZE
  /\ i_other_loop = FALSE
  /\ i_queue = <<>>
  /\ i_results = <<>>
  /\ i_embeddings = <<>>
  /\ i_events = <<>>
  /\ i_committed = FALSE
  /\ i_closed = FALSE
  /\ i_cause = "none"

ImportProgress(job_id, processed, total) ==
  [ type |-> "import_progress", job_id |-> job_id, processed |-> processed,
    total |-> total, count |-> NotSet ]
ReviewsUpdated ==
  [ type |-> "reviews_updated", job_id |-> "", processed |-> NotSet,
    total |-> NotSet, count |-> NotSet ]
ImportCompleted(job_id, count) ==
  [ type |-> "import_completed", job_id |-> job_id, processed |-> NotSet,
    total |-> NotSet, count |-> count ]

\* ml.analyze_text, lines 210-211, called by process_reviews (pipeline.py line
\* 35) from a coroutine: asyncio.run finds the loop running and raises
\* RuntimeError before anything is analysed
AnalyzeTextInLoop == "raised"

\* reviews.py lines 46-60: one import_progress for each pair of zip(records,
\* analyses), processed = 1, 2, ..., when job_id is set
ProgressEvents(job_id, n, total) ==
  IF job_id = "" THEN <<>>
  ELSE [ k \in 1 .. n |-> ImportProgress(job_id, k, total) ]

\* process_reviews from line 33 on, then import_reviews_async lines 46-65 and
\* _process lines 25-31, with the list `embeddings` complete
ImportAfterEmbeddings(job_id, n, events) ==
  /\ i_closed' = TRUE
  /\ IF AnalyzeTextInLoop = "raised"
     THEN /\ i_pc' = "raised"
          /\ i_cause' = "analyze_text"
          /\ i_events' = events
          /\ UNCHANGED i_committed
     ELSE /\ i_pc' = "returned"
          /\ i_cause' = "none"
          /\ i_committed' = TRUE
          /\ i_events' = events \o ProgressEvents(job_id, n, n)
                             \o << ReviewsUpdated, ImportCompleted(job_id, n) >>

\* pipeline.py lines 30-31 as far as they run without suspending
ImportGather(embeddings, results) ==
  LET got == TakeResults(embeddings, results, i_n)
  IN  /\ i_embeddings' = got.embeddings
      /\ i_results' = got.results
      /\ IF Len(got.embeddings) < i_n
         THEN /\ i_pc' = "waiting"
              /\ UNCHANGED << i_events, i_committed, i_closed, i_cause >>
         ELSE ImportAfterEmbeddings(i_job_id, i_n, i_events)

\* import_reviews_task, _process lines 10-24, import_reviews_async lines 39-44
\* and process_reviews lines 17-31 up to the first suspension.  With the
\* batcher bound to another loop the texts are embedded by one direct call of
\* generate_embeddings, whose exception nothing catches.
ImportStart ==
  /\ UNCHANGED otherThanImport
  /\ i_pc = "idle" /\ i_events = <<>>
  /\ \E n \in RecordCounts, job_id \in JobIds, size \in BatcherSizes,
        other \in BOOLEAN, outcome \in EmbedOutcomes :
       LET texts == [ k \in 1 .. n |-> << 0, k >> ]
       IN  /\ i_n' = n
           /\ i_job_id' = job_id
           /\ i_batch_size' = size
           /\ i_other_loop' = other
           /\ IF n = 0
              THEN /\ i_pc' = "returned"
                   /\ UNCHANGED << i_queue, i_results, i_embeddings, i_events,
                                   i_committed, i_closed, i_cause >>
              ELSE IF other
                   THEN /\ UNCHANGED << i_queue, i_results >>
                        /\ IF outcome = "raised"
                           THEN /\ i_events' = << ImportProgress(job_id, 0, n) >>
                                /\ i_pc' = "raised"
                                /\ i_cause' = "embedding"
                                /\ i_closed' = TRUE
                                /\ UNCHANGED << i_embeddings, i_committed >>
                           ELSE /\ i_embeddings' =
                                     GenerateEmbeddings(texts, outcome = "vectors")
                                /\ ImportAfterEmbeddings(
                                     job_id, n, << ImportProgress(job_id, 0, n) >>)
                   ELSE /\ i_events' = << ImportProgress(job_id, 0, n) >>
                        /\ i_queue' = texts
                        /\ i_pc' = "waiting"
                        /\ UNCHANGED << i_results, i_embeddings, i_committed,
                                        i_closed, i_cause >>

\* one turn of _runner on the loop of the job, embeddings.py lines 28-37
ImportRunnerBatch ==
  /\ UNCHANGED otherThanImport
  /\ i_pc = "waiting" /\ i_queue # <<>>
  /\ \E outcome \in EmbedOutcomes :
       LET batch == SubSeq(i_queue, 1, Min(i_batch_size, Len(i_queue)))
       IN  /\ i_results' = Append(i_results, RunnerEmbeddings(batch, outcome))
           /\ i_queue' = SubSeq(i_queue, Len(batch) + 1, Len(i_queue))
  /\ UNCHANGED << i_pc, i_n, i_job_id, i_batch_size, i_other_loop, i_embeddings,
                  i_events, i_committed, i_closed, i_cause >>

\* process_reviews resumed in get_embeddings, pipeline.py line 31, and all
\* that follows without suspending
ImportResume ==
  /\ UNCHANGED otherThanImport
  /\ i_pc = "waiting" /\ i_results # <<>>
  /\ ImportGather(i_embeddings, i_results)
  /\ UNCHANGED << i_n, i_job_id, i_batch_size, i_other_loop, i_queue >>

NextImport ==
  \/ ImportStart
  \/ ImportRunnerBatch
  \/ ImportResume

InitAll ==
  InitScrape /\ InitEmbed /\ InitAnalyze /\ InitPipe /\ InitClient /\ InitImport
Init == InitAll /\ p_batch_size = EMBEDDING_BATCH_SIZE /\ s_cfg = DefaultSettings
InitPipeline == InitAll /\ s_cfg = DefaultSettings
InitClientCalls == InitAll /\ p_batch_size = EMBEDDING_BATCH_SIZE
Next == NextScrape
Spec == Init /\ [][Next]_vars
SpecEmbed == Init /\ [][NextEmbed]_vars
SpecAnalyze == Init /\ [][NextAnalyze]_vars
SpecPipeline == InitPipeline /\ [][NextPipeline]_vars
SpecClient == InitClientCalls /\ [][NextClient]_vars
SpecImport == Init /\ [][NextImport]_vars

(***************************************************************************)
(* Properties of the scrape jobs, checked under Spec.                      *)
(***************************************************************************)
NoSharedKey(rows) ==
  \A i, j \in 1 .. Len(rows) : i < j => DedupKey(rows[i]) # DedupKey(rows[j])

RetriedStatus == { 0 - 1, 429, 403, 500 }

\* C1: a job that returns a ParseResult reports as rows_written the number of
\* rows left after deduplication, and no two rows of the row file share a
\* dedup key.
C1_RowsWrittenDeduplicated ==
  pc = "done" =>
    /\ result.rows_written = Len(DeduplicateRows(parsed_rows))
    /\ NoSharedKey(csv)

\* C2, as stated: with a start_date, every row of the ParseResult has a parsed
\* date, and that date is not older than start_date.
C2_EveryRowDatedNotOlder ==
  (pc = "done" /\ start_date # NoThreshold) =>
    \A i \in 1 .. Len(result.rows) :
      /\ ParseDatetime(result.rows[i].date) # NoDate
      /\ ParseDatetime(result.rows[i].date) >= start_date

\* C2, amended: with a start_date, every row of the ParseResult whose date
\* parses has a parsed date not older than start_date (a row whose date does
\* not parse is kept), in the result and in the row file.
C2_ParsedDatesNotOlder ==
  (pc = "done" /\ start_date # NoThreshold) =>
    /\ \A i \in 1 .. Len(result.rows) :
         ParseDatetime(result.rows[i].date) # NoDate
           => ParseDatetime(result.rows[i].date) >= start_date
    /\ \A i \in 1 .. Len(csv) :
         ParseDatetime(csv[i].date) # NoDate
           => ParseDatetime(csv[i].date) >= start_date

\* a job with a threshold returned a row dated exactly start_date next to a
\* row whose date does not parse
C2_Witness ==
  /\ pc = "done" /\ start_date # NoThreshold
  /\ \E i, j \in 1 .. Len(result.rows) :
       /\ ParseDatetime(result.rows[i].date) = start_date
       /\ ParseDatetime(result.rows[j].date) = NoDate

\* C7: after a 429 on page p the job is still running and its next request is
\* for page p again.
C7_ThrottledPageRequestedAgain ==
  (last_status = 429 /\ pc = "run") => page = last_req

\* C8: a banki page is given up by the attempt loop only after 6 failures that
\* are not 429.
C8_ThrottleKeepsAttempts ==
  ( /\ adapter = "banki"
    /\ last_status \in RetriedStatus
    /\ skipped_pages # <<>>
    /\ skipped_pages[Len(skipped_pages)] = last_req )
  => req_page - n429 >= DEFAULT_MAX_RETRIES

\* C9: a banki page is requested at most 6 times and never again once the job
\* left it; when the last attempt fails the page alone is given up: it is
\* recorded as skipped and the job goes on with page p+1 (or, after the last
\* page, ends its loop) without a fetch error.
C9_RetryBudgetThenSkip ==
  adapter = "banki" =>
    /\ req_page <= DEFAULT_MAX_RETRIES
    /\ last_req <= page
    /\ (req_page = DEFAULT_MAX_RETRIES /\ last_status \in RetriedStatus) =>
         /\ skipped_pages # <<>>
         /\ skipped_pages[Len(skipped_pages)] = last_req
         /\ error \in { "none", "norows", "filename" }
         /\ IF last_req < max_pages
            THEN pc = "run" /\ page = last_req + 1 /\ attempt = 1
            ELSE pc \in { "done", "failed" }

\* the sixth attempt for page 1 was answered 403 and the job is about to
\* request page 2
C9_Witness ==
  /\ adapter = "banki" /\ req_page = DEFAULT_MAX_RETRIES /\ last_status = 403
  /\ last_req = 1 /\ pc = "run" /\ page = 2

\* C10: a banki page answered 200 without the embedded payload ends the job
\* with the structural-drift error: nothing more is requested, the page is
\* not recorded as skipped, no ParseResult is returned, no row file written.
C10_DriftAbortsJob ==
  (adapter = "banki" /\ last_status = 200 /\ last_body = "nopayload") =>
    /\ pc = "failed" /\ error = "drift"
    /\ ~ ENABLED Next
    /\ \A i \in 1 .. Len(skipped_pages) : skipped_pages[i] # last_req
    /\ result = NoResult
    /\ ~ csv_written

\* the payload was missing on page 2, after page 1 had given rows
C10_Witness ==
  /\ adapter = "banki" /\ last_body = "nopayload" /\ last_req = 2
  /\ parsed_rows # <<>> /\ pc = "failed"

RECURSIVE AllItems(_)
AllItems(pages) ==
  IF pages = <<>> THEN <<>> ELSE Head(pages) \o AllItems(Tail(pages))

RowsOf(items) == [ i \in 1 .. Len(items) |-> BuildRow(items[i]) ]

\* C11: in a sravni job without start_date the accumulated rows are the items
\* of every page received, in order, and once a page came back with fewer than
\* page_size items (or none) the job has left its page loop: nothing more is
\* requested.  (Stated for every job, so also for one answered 200 throughout.)
C11_ShortPageEndsLoop ==
  (adapter = "sravni" /\ start_date = NoThreshold) =>
    /\ parsed_rows = RowsOf(AllItems(pages_got))
    /\ ( /\ last_status = 200 /\ last_body = "payload"
         /\ Len(pages_got[Len(pages_got)]) < page_size )
       => (pc \in { "done", "failed" } /\ ~ ENABLED Next)

\* the first page of a job allowed two pages of two items came back with one
\* item: the job returned that one row and never asked for the second page
C11_Witness ==
  /\ adapter = "sravni" /\ start_date = NoThreshold
  /\ page_size = 2 /\ max_pages = 2
  /\ last_req = 0 /\ req_page = 1 /\ last_status = 200
  /\ Len(pages_got) = 1 /\ Len(pages_got[1]) = 1
  /\ pc = "done" /\ result.rows_written = 1

\* C17: a sravni page whose fetch failed once with a 5xx status, a connection
\* error or a timeout does not abort the job: the job is still running and
\* about to request that page again.
C17_SravniTransientRetried ==
  (adapter = "sravni" /\ last_status \in { 0 - 1, 500 } /\ req_page = 1) =>
    /\ pc = "run" /\ error = "none"
    /\ page = last_req

\* the errors that abort a job: a rejected configuration, a failed request,
\* an unexpected status, a body that is not JSON, a page without its payload
AbortErrors == { "config", "request", "status", "json", "drift" }

\* C18: a job of either adapter that ended without an abort and with no row
\* accumulated has failed with the error "no reviews parsed": it returned no
\* ParseResult and wrote no row file.
C18_NoRowsIsAnError ==
  (pc \in { "done", "failed" } /\ error \notin AbortErrors /\ parsed_rows = <<>>) =>
    /\ pc = "failed" /\ error = "norows"
    /\ result = NoResult
    /\ ~ csv_written /\ csv = <<>>

\* a banki job of two pages gave up both pages and failed for want of rows
C18_Witness ==
  /\ adapter = "banki" /\ max_pages = 2 /\ skipped_pages = << 1, 2 >>
  /\ parsed_rows = <<>> /\ pc = "failed" /\ error = "norows"

\* C19: a job rejected for its configuration (page_size, max_pages, the delay
\* range, or an output filename that is blank) has issued no request.
C19_ConfigRejectedBeforeRequests ==
  (pc = "failed" /\ error \in { "config", "filename" }) => last_req = 0 - 1

\* the positions of the items whose date parses and is older than start_date
OlderAt(items) ==
  { i \in 1 .. Len(items) :
      /\ ParseDatetime(items[i].date) # NoDate
      /\ ParseDatetime(items[i].date) < start_date }

\* the items before the first older one
BeforeFirstOlder(items) ==
  IF OlderAt(items) = {} THEN items
  ELSE SubSeq(items, 1, (CHOOSE k \in OlderAt(items) : \A l \in OlderAt(items) : k <= l) - 1)

\* C22: with a start_date, in both adapters, the rows of the job are the rows
\* of the items received before the first item older than start_date, nothing
\* of that item or after it is added, and the page holding it is the last one
\* requested: the job has left its page loop.
C22_RowsEndBeforeFirstOlder ==
  start_date # NoThreshold =>
    /\ parsed_rows = RowsOf(BeforeFirstOlder(AllItems(pages_got)))
    /\ \A i \in 1 .. Len(pages_got) :
         OlderAt(pages_got[i]) # {} =>
           /\ i = Len(pages_got)
           /\ last_status = 200 /\ last_body = "payload"
           /\ pc \in { "done", "failed" }
           /\ ~ ENABLED Next

\* the first page was full and newer, the second page has a newer item and
\* then an older one: the job returned the three newer rows
C22_Witness ==
  /\ start_date # NoThreshold /\ page_size = 2 /\ Len(pages_got) = 2
  /\ OlderAt(pages_got[1]) = {} /\ OlderAt(pages_got[2]) = { 2 }
  /\ pc = "done" /\ Len(result.rows) >= 1 /\ Len(parsed_rows) = 3

\* C23: in a banki job that returned a ParseResult, skipped_pages of the
\* result is strictly ascending and holds exactly the pages whose fetch failed;
\* every page visited was either skipped or answered, and the rows are those
\* of all the answered pages (up to the threshold), deduplicated: a skipped
\* page adds nothing and takes nothing away.
C23_SkippedPagesAreTheFailedFetches ==
  (adapter = "banki" /\ pc = "done") =>
    /\ \A i, j \in 1 .. Len(result.skipped_pages) :
         i < j => result.skipped_pages[i] < result.skipped_pages[j]
    /\ { result.skipped_pages[i] : i \in 1 .. Len(result.skipped_pages) } = fetch_failed
    /\ Len(pages_got) + Cardinality(fetch_failed) = last_req
    /\ result.rows = DeduplicateRows(RowsOf(BeforeFirstOlder(AllItems(pages_got))))

\* the fetch of page 1 failed, page 2 was answered with rows, and the job
\* returned them with page 1 listed as skipped
C23_Witness ==
  /\ adapter = "banki" /\ pc = "done"
  /\ result.skipped_pages = << 1 >> /\ last_req = 2
  /\ Len(pages_got) = 1 /\ result.rows_written = 2

\* the positions of the rows that no earlier row shares its dedup key with
FirstSeen(rows) ==
  { i \in 1 .. Len(rows) :
      \A j \in 1 .. (i - 1) : DedupKey(rows[j]) # DedupKey(rows[i]) }

\* the k-th smallest member of a set of positions
Nth(S, k) == CHOOSE i \in S : Cardinality({ j \in S : j < i }) = k - 1

\* C25: the rows a banki job returns are the rows it parsed, in page order and
\* then order within the page, less every row whose dedup key (the native id
\* when present, otherwise date and body) an earlier row already had: for each
\* key exactly the first row is kept, and the kept rows keep their order.
C25_FirstSeenRowsInOrder ==
  (adapter = "banki" /\ pc = "done") =>
    /\ Len(result.rows) = Cardinality(FirstSeen(parsed_rows))
    /\ \A k \in 1 .. Len(result.rows) :
         result.rows[k] = parsed_rows[Nth(FirstSeen(parsed_rows), k)]
    /\ csv = result.rows

\* a banki job parsed three rows, the third sharing its key with the first,
\* and returned the first two
C25_Witness ==
  /\ adapter = "banki" /\ pc = "done"
  /\ Len(parsed_rows) = 3 /\ Len(result.rows) = 2
  /\ DedupKey(parsed_rows[3]) = DedupKey(parsed_rows[1])
  /\ DedupKey(parsed_rows[2]) # DedupKey(parsed_rows[1])
  /\ result.rows = << parsed_rows[1], parsed_rows[2] >>

\* the requests a running job may still issue: the pages left for sravni, the
\* attempts left for the page in hand and for the pages after it for banki
RequestsLeft ==
  IF pc # "run" THEN 0
  ELSE IF adapter = "sravni" THEN max_pages - page
  ELSE (max_pages - page) * DEFAULT_MAX_RETRIES + (DEFAULT_MAX_RETRIES - attempt + 1)

\* the requests a job may issue in all
RequestBudget ==
  IF adapter = "sravni" THEN max_pages ELSE max_pages * DEFAULT_MAX_RETRIES

\* the step issues a request
IsRequest == << last_req, req_page >>' # << last_req, req_page >>

\* C29: every scrape job ends, with a ParseResult or an error, whatever the
\* source answers, and within its budget of requests, max_pages for sravni and
\* 6 * max_pages for banki: a job starts with its budget, every step of a
\* running job is one request and lowers what is left of the budget by at
\* least one, what is left is never negative, a running job always has a
\* next step, and outside a running job no request is issued.
C29_EndsWithinRequestBudget ==
  /\ [](pc = "run" => (RequestsLeft >= 1 /\ RequestsLeft <= RequestBudget))
  /\ [](pc = "run" => ENABLED Next)
  /\ [](pc \in { "done", "failed" } => ~ ENABLED Next)
  /\ [][ /\ pc = "idle" /\ pc' = "run" => RequestsLeft' = RequestBudget'
         /\ pc = "run" => (IsRequest /\ RequestsLeft' < RequestsLeft)
         /\ IsRequest => pc = "run" ]_vars

\* a banki job of two pages was answered 429 twelve times: six requests for
\* each page, both pages given up, and the job ended
C29_Witness ==
  /\ adapter = "banki" /\ max_pages = 2 /\ pc \in { "done", "failed" }
  /\ last_req = 2 /\ req_page = DEFAULT_MAX_RETRIES /\ n429 = DEFAULT_MAX_RETRIES
  /\ fetch_failed = { 1, 2 }

\* C30, as stated: a job posted to the run endpoint is run by the parser its
\* source names, banki_ru by the banki parser and never by the sravni parser,
\* and the source of the result it returns is the source it was posted with.
C30_AdapterIsTheSource ==
  (source # "none" /\ pc # "idle") =>
    /\ adapter = AdapterNamed(source)
    /\ pc = "done" => ResultSource(adapter) = source

\* C24: in a banki job the wait after a 403 on attempt n is min(180, 30 * n)
\* seconds and after a 5xx min(90, 10 * n) seconds, and after either the
\* session is a new one: the session of the job has never received a 403 or
\* a 5xx when the next request is issued.
C24_BackoffAndNewSession ==
  adapter = "banki" =>
    /\ last_status = 403 => last_wait = Min2(BLOCKED_CAP, BLOCKED_BASE * req_page)
    /\ last_status = 500 =>
         last_wait = Min2(SERVER_ERROR_CAP, SERVER_ERROR_BASE * req_page)
    /\ ~ session_blocked

\* the fifth attempt for page 1 was answered 403, the job waited 150 seconds
\* and is about to issue the sixth attempt
C24_Witness ==
  /\ adapter = "banki" /\ last_status = 403 /\ req_page = 5 /\ last_wait = 150
  /\ pc = "run" /\ page = 1 /\ attempt = 6 /\ ~ session_blocked

(***************************************************************************)
(* Properties of generate_embeddings_async, checked under SpecEmbed.       *)
(***************************************************************************)
\* C3: the returned list has exactly as many entries as there are texts.
C3_OneEntryPerText ==
  e_pc = "returned" => Len(e_embeddings) = Len(e_texts)

(***************************************************************************)
(* Properties of analyze_text_async, checked under SpecAnalyze.            *)
(***************************************************************************)
\* C5: whatever the chat API did, the sentiment of the returned result is one
\* of positive, negative, neutral.
C5_SentimentIsALabel ==
  a_pc = "returned" => a_result.sentiment \in Labels

\* the chat API was called and a result came back from its payload
C5_Witness ==
  a_pc = "returned" /\ a_result.source = "llm" /\ a_chat_calls = 2

\* C6: the sentiment_score of the returned result is null or lies in [-1, 1].
C6_ScoreInRange ==
  a_pc = "returned" =>
    \/ a_result.sentiment_score = NoScore
    \/ (0 - 10 <= a_result.sentiment_score /\ a_result.sentiment_score <= 10)

\* C13: without an API key every call returns the heuristic result and issues
\* no chat-completion call and no embedding call, with or without an embedding
\* passed in.
C13_NoKeyNoCalls ==
  (a_pc # "idle" /\ ~ a_key) =>
    /\ a_pc = "returned"
    /\ a_result = FallbackAnalysis(a_text)
    /\ a_chat_calls = 0
    /\ a_embed_calls = 0

\* a call without a key, with an embedding passed in, has returned
C13_Witness ==
  a_pc = "returned" /\ ~ a_key /\ a_embedding # NoVector /\ a_text = 2

\* C14: with a key and R = max(1, configured retries), at most R chat calls
\* are issued for the text; failure n of the retried kind is followed by the
\* backoff of n * FOUNDATION_CHAT_BACKOFF_SECONDS before any further call; and
\* when R attempts failed that way the call has returned the heuristic result.
C14_AtMostRCallsThenFallback ==
  a_key =>
    /\ a_retries = Max(1, a_cfg)
    /\ a_chat_calls <= Max(1, a_cfg)
    /\ Len(a_delays) = a_attempt
    /\ \A n \in 1 .. Len(a_delays) : a_delays[n] = CHAT_BACKOFF_SECONDS * n
    /\ a_chat_calls <= Len(a_delays) + 1
    /\ a_attempt = Max(1, a_cfg) =>
         /\ a_pc = "returned"
         /\ a_result = [ FallbackAnalysis(a_text) EXCEPT !.embedding = a_local ]

\* three attempts were configured, all three timed out, and the call returned
\* the heuristic result after three backoffs
C14_Witness ==
  /\ a_key /\ a_cfg = 3 /\ a_chat_calls = 3 /\ a_last = "timeout"
  /\ Len(a_delays) = 3
  /\ a_pc = "returned" /\ a_result.source = "fallback"

InvalidKinds == { "empty", "garbage", "schema", "label" }

\* C15: when the chat call answered with content that is empty, not JSON,
\* against the schema or with a label outside the three, the call has returned
\* the heuristic result at once: no backoff followed that answer and nothing
\* more is called.
C15_InvalidPayloadFallsBack ==
  a_last \in InvalidKinds =>
    /\ a_pc = "returned"
    /\ a_result = [ FallbackAnalysis(a_text) EXCEPT !.embedding = a_local ]
    /\ Len(a_delays) = a_chat_calls - 1
    /\ ~ ENABLED NextAnalyze

\* the first attempt timed out, the second was answered with a label outside
\* the three, and the call returned the heuristic result with one retry left
C15_Witness ==
  /\ a_last = "label" /\ a_chat_calls = 2 /\ a_retries = 3
  /\ a_pc = "returned" /\ a_result.source = "fallback"

SpecTransient == { "connection", "timeout", "rate_limit", "status_5xx" }

\* C16: a chat call that failed otherwise than by a connection error, a
\* timeout, a rate limit or a 5xx status (so also by a 4xx status other than
\* 429) is followed by no further chat call: the call has returned the
\* heuristic result.
C16_OnlyTransientRetried ==
  (a_last \notin SpecTransient \cup { "none", "valid" }) =>
    /\ a_pc = "returned"
    /\ a_result.source = "fallback"

\* C21: the result carries at most 5 highlights, and at most 5 are stored on
\* the review by the bulk import as by the single-review task.
C21_AtMostFiveHighlights ==
  a_pc = "returned" =>
    /\ a_result.highlights <= MAX_STORED_HIGHLIGHTS
    /\ BuildReviewHighlights(a_result.highlights) <= MAX_STORED_HIGHLIGHTS
    /\ TaskHighlights(a_result.highlights) <= MAX_STORED_HIGHLIGHTS

(***************************************************************************)
(* Properties of concurrent process_reviews calls, checked under           *)
(* SpecPipeline.                                                           *)
(***************************************************************************)
\* C4: every embedding a caller holds was computed for that caller's text of
\* the same index, so it pairs text i with the vector (or None) of text i and
\* never receives one computed for another caller's text.
C4_OwnVectorsByIndex ==
  \A c \in Callers : \A i \in 1 .. Len(p_embeddings[c]) :
    p_embeddings[c][i].for = << c, i >>

\* C12: when generate_embeddings raised for the latest batch, _runner put one
\* None for each text of that batch, in the order of the batch; the task is
\* still running and takes the next batch as soon as texts are queued; and a
\* caller never fails inside get_embeddings: one that raised had its list of
\* embeddings complete.
C12_FailedBatchGivesNulls ==
  /\ p_last.outcome = "raised" =>
       /\ Len(p_last.put) = Len(p_last.batch)
       /\ \A i \in 1 .. Len(p_last.put) :
            p_last.put[i] = [ for |-> p_last.batch[i], vector |-> FALSE ]
       /\ p_runner = "running"
       /\ p_queue # <<>> => ENABLED RunnerBatch
  /\ \A c \in Callers : p_pc[c] = "raised" => Len(p_embeddings[c]) >= p_n[c]

\* a batch of two texts failed, its two None were put and a caller took them
\* out of the result queue as its embeddings
C12_Witness ==
  /\ p_last.outcome = "raised" /\ Len(p_last.batch) = 2
  /\ p_results = <<>>
  /\ \E c \in Callers :
       /\ p_pc[c] = "raised" /\ p_embeddings[c] = p_last.put
       /\ \A i \in 1 .. 2 : ~ p_embeddings[c][i].vector

RECURSIVE Flatten(_)
Flatten(batches) ==
  IF batches = <<>> THEN <<>> ELSE Head(batches) \o Flatten(Tail(batches))

\* C26: every batch the runner handed to the embedding call holds at least
\* one and at most batch_size texts; the batches put end to end, followed by
\* what is still queued, are the enqueued texts in the order they were
\* enqueued, so no text is lost, sent twice or overtaken, a timed-out wait
\* included; and the runner, once started, is always there to take the rest.
C26_BatchesAreTheQueueInOrder ==
  /\ \A k \in 1 .. Len(p_dispatched) :
       Len(p_dispatched[k]) >= 1 /\ Len(p_dispatched[k]) <= p_batch_size
  /\ Flatten(p_dispatched) \o p_queue = p_enqueued
  /\ \A i, j \in 1 .. Len(p_enqueued) : i < j => p_enqueued[i] # p_enqueued[j]
  /\ p_last.outcome = "timeout" => p_last.put = <<>>
  /\ p_started => p_runner = "running"
  /\ (p_started /\ p_queue # <<>>) => ENABLED RunnerBatch

\* with a batch size of 1 two texts enqueued together went out as two batches
\* of one, in the order of their enqueueing, and the next wait timed out
C26_Witness ==
  /\ p_batch_size = 1 /\ Len(p_enqueued) = 2 /\ p_queue = <<>>
  /\ Len(p_dispatched) = 2
  /\ p_dispatched[1] = << p_enqueued[1] >> /\ p_dispatched[2] = << p_enqueued[2] >>
  /\ p_last.outcome = "timeout"

\* caller c is suspended in get_embeddings while nothing is queued, no batch
\* result is left or on its way to a caller, and every other caller is done:
\* nothing will ever be put for c
Stranded(c) ==
  /\ p_pc[c] = "waiting"
  /\ p_queue = <<>> /\ p_results = <<>> /\ p_woken = <<>>
  /\ \A d \in Callers \ { c } : p_pc[d] \in { "returned", "raised" }

\* C28, as stated: of the process_reviews calls sharing the batcher none is
\* left waiting for batch results that another call has taken from the
\* shared result queue.
C28_NoCallerStranded == \A c \in Callers : ~ Stranded(c)

(***************************************************************************)
(* Properties of the import job, checked under SpecImport.                 *)
(***************************************************************************)
\* the messages of an import of n records that went through
ExpectedEvents(job_id, n) ==
  << ImportProgress(job_id, 0, n) >>
    \o [ k \in 1 .. n |-> ImportProgress(job_id, k, n) ]
    \o << ReviewsUpdated, ImportCompleted(job_id, n) >>

Published(type) == \E k \in 1 .. Len(i_events) : i_events[k].type = type

\* C27, as stated: an import job of n >= 1 records that has ended published
\* import_progress with processed 0, 1, ..., n, then reviews_updated, then
\* import_completed with count n, after the commit; it publishes neither
\* reviews_updated nor import_completed when it raised, which it only does
\* when the embedding call failed.
C27_EventsInOrder ==
  (i_n >= 1 /\ i_job_id # "" /\ i_pc \in { "returned", "raised" }) =>
    \/ /\ i_pc = "returned"
       /\ i_committed
       /\ i_events = ExpectedEvents(i_job_id, i_n)
    \/ /\ i_pc = "raised"
       /\ i_cause = "embedding"
       /\ ~ Published("reviews_updated") /\ ~ Published("import_completed")

(***************************************************************************)
(* Properties of the API calls under their semaphores, checked under       *)
(* SpecClient.                                                             *)
(***************************************************************************)
InFlight(k) == { t \in Tasks : s_kind[t] = k /\ s_pc[t] = "inflight" }
Woken(k) == { t \in Tasks : s_kind[t] = k /\ s_pc[t] = "woken" }
Waiting(k) == { t \in Tasks : s_kind[t] = k /\ s_pc[t] = "waiting" }

\* C20: for each kind of call, chat and embedding, the calls in flight never
\* exceed the cap of that kind; a call of that kind waits only while calls of
\* the same kind hold every permit (or a task of its kind queued before it was
\* just handed one); and the permits free, handed over and in use add up to
\* the cap after every call, returned or raised.
C20_CapsHoldAndAreIndependent ==
  \A k \in Kinds :
    /\ Cardinality(InFlight(k)) <= Cap(k)
    /\ Waiting(k) # {} => (Woken(k) # {} \/ Cardinality(InFlight(k)) = Cap(k))
    /\ s_value[k] + Cardinality(Woken(k)) + Cardinality(InFlight(k)) = Cap(k)

\* after a call that raised: the one embedding permit is in use and a second
\* embedding call waits for it, while a chat call is in flight
C20_Witness ==
  /\ s_last = "raised"
  /\ Cap("embed") = 1 /\ Cardinality(InFlight("embed")) = 1
  /\ Waiting("embed") # {}
  /\ Cardinality(InFlight("chat")) = 1
=============================================================================
